---------------------------- MODULE Spec2Model ----------------------------
(***************************************************************************)
(* IHJS: a component tree rendered to HTML (components/base.py,            *)
(* components/typography.py, __init__.py) and the dev/build harness        *)
(* around it (cli.py).                                                     *)
(*                                                                         *)
(* Python strings are modelled as sequences of one-character strings, so   *)
(* that concatenation, joining and "contains" are computed, not assumed.   *)
(***************************************************************************)
EXTENDS Integers, Sequences, FiniteSets, TLC

VARIABLES
    \* ---- component tree (SpecRender) ----
    call,                \* the constructor call last made
    node,                \* what the call returned: a node, or a raised TypeError
    html,                \* what node.render() returned
    rendered,            \* whether render() has been called on node
    \* ---- dev loop: websockets and file watcher (SpecDev) ----
    active_connections,  \* cli.py:19, the shared set
    client,              \* per connection: the peer's side of the socket
    handler,             \* per connection: the websocket_endpoint task
    wpc,                 \* the file_watcher task's position
    wlist,               \* the rest of list(active_connections) being iterated
    wcur,                \* the connection whose send_text is awaited
    changeNo,            \* .py changes that have happened in the watched directory
    detected,            \* the last change awatch has yielded to the watcher
    batchStart,          \* the first change of the batch awatch yielded last
    openAt,              \* per change: the connections open when it was detected
    reloads,             \* per connection: the changes whose "reload" it was sent
    otherPending,        \* a change to no .py file awaits the watcher
    \* ---- homepage requests and the build command (SpecHarness) ----
    appFile,             \* the user's app file on disk
    sys_modules,         \* the dev server's sys.modules entry for the app module
    response,            \* the last HTTP response of homepage
    reqFile,             \* the app file as it was when that request was served
    requests,            \* number of requests served
    dirs,                \* directories that exist under the working directory
    files,               \* regular files that exist, with their content
    buildRun             \* the last run of the build command

renderVars  == <<call, node, html, rendered>>
devVars     == <<active_connections, client, handler, wpc, wlist, wcur,
                 changeNo, detected, batchStart, openAt, reloads,
                 otherPending>>
harnessVars == <<appFile, sys_modules, response, reqFile, requests,
                 dirs, files, buildRun>>
vars        == <<renderVars, devVars, harnessVars>>

---------------------------------------------------------------------------
(* Bounds *)
MaxChildren == 2
MaxLevel    == 3
MaxConns    == 2
MaxChanges  == 2
MaxRequests == 3
MaxBuilds   == 2

---------------------------------------------------------------------------
(* Python values: None, str, int.  "absent" marks a keyword not passed.    *)

Absent  == [n |-> 0, s |-> <<>>, t |-> "absent"]
None    == [n |-> 0, s |-> <<>>, t |-> "none"]
VStr(x) == [n |-> 0, s |-> x,    t |-> "str"]
VInt(k) == [n |-> k, s |-> <<>>, t |-> "int"]
VList   == [n |-> 0, s |-> <<>>, t |-> "list"]

Digit(d) == CASE d = 0 -> "0" [] d = 1 -> "1" [] d = 2 -> "2" [] d = 3 -> "3"
              [] d = 4 -> "4" [] d = 5 -> "5" [] d = 6 -> "6" [] d = 7 -> "7"
              [] d = 8 -> "8" [] d = 9 -> "9"

RECURSIVE IntToStr(_)
IntToStr(n) == IF n < 10 THEN <<Digit(n)>>
               ELSE IntToStr(n \div 10) \o <<Digit(n % 10)>>

\* str(v), as an f-string formats {v}
pyStr(v) == CASE v.t = "str"  -> v.s
              [] v.t = "int"  -> IntToStr(v.n)
              [] v.t = "none" -> <<"N", "o", "n", "e">>
              [] OTHER        -> <<"[", "]">>

\* sep.join(parts)
RECURSIVE Join(_, _)
Join(sep, parts) ==
    IF parts = <<>> THEN <<>>
    ELSE IF Len(parts) = 1 THEN parts[1]
    ELSE parts[1] \o sep \o Join(sep, Tail(parts))

\* "".join(parts)
RECURSIVE Concat(_)
Concat(parts) == IF parts = <<>> THEN <<>> ELSE parts[1] \o Concat(Tail(parts))

\* sub in s
Contains(s, sub) ==
    \E i \in 1..(Len(s) - Len(sub) + 1) : SubSeq(s, i, i + Len(sub) - 1) = sub

\* s.count(sub), for the non-overlapping tokens used here
Count(s, sub) ==
    Cardinality({i \in 1..(Len(s) - Len(sub) + 1) :
                    SubSeq(s, i, i + Len(sub) - 1) = sub})

---------------------------------------------------------------------------
(* String literals of the source *)
sDiv       == <<"d", "i", "v">>
sSpan      == <<"s", "p", "a", "n">>
sP         == <<"p">>
sClass     == <<"c", "l", "a", "s", "s">>
sClassName == <<"c", "l", "a", "s", "s", "_", "n", "a", "m", "e">>
sContent   == <<"c", "o", "n", "t", "e", "n", "t">>
sLevel     == <<"l", "e", "v", "e", "l">>
sTag       == <<"t", "a", "g">>
sChildren  == <<"c", "h", "i", "l", "d", "r", "e", "n">>
sId        == <<"i", "d">>
sH         == <<"h">>

---------------------------------------------------------------------------
(* components/base.py, components/typography.py: construction              *)

\* a keyword-argument dictionary **kwargs
Kwargs(t, c, ch, i) ==
    [children |-> ch, class_name |-> c, id |-> i, tag |-> t]

TypeError == [children |-> <<>>, class_name |-> None, cls |-> "TypeError",
              content |-> <<>>, extra |-> <<>>, level |-> Absent,
              tag |-> <<>>]

\* the field defaults of each model class
DefaultTag(cls) == IF cls = "Component" THEN sDiv ELSE sSpan
DefaultLevel(cls) == IF cls = "Heading" THEN VInt(1) ELSE Absent

\* pydantic BaseModel.__init__ for class cls: declared fields take the keyword
\* or their default, undeclared keywords are kept as extras (extra="allow")
BaseModel_init(cls, content, level, kw) ==
    [children   |-> kw.children,
     class_name |-> IF kw.class_name = Absent THEN None ELSE kw.class_name,
     cls        |-> cls,
     content    |-> content,
     extra      |-> IF kw.id = Absent THEN <<>> ELSE << <<sId, kw.id>> >>,
     level      |-> IF level = Absent THEN DefaultLevel(cls) ELSE level,
     tag        |-> IF kw.tag = Absent THEN DefaultTag(cls) ELSE kw.tag.s]

\* Component(**kwargs)
Component(kw) == BaseModel_init("Component", <<>>, Absent, kw)

\* Text.__init__(self, content, **kwargs), for Text and its subclasses
Text_init(cls, content, kw) == BaseModel_init(cls, content, Absent, kw)

\* Text(content, **kwargs)
Text(content, kw) == Text_init("Text", content, kw)

\* Heading.__init__(self, content, level, **kwargs): tag=f"h{level}" is passed
\* next to **kwargs, and level itself is not passed on
Heading(content, level, kw) ==
    IF kw.tag # Absent
    THEN TypeError
    ELSE Text_init("Heading", content,
                   [kw EXCEPT !.tag = VStr(sH \o pyStr(VInt(level)))])

\* __init__.py
text(content, kw) == Text(content, kw)
heading(content, level, kw) == Heading(content, level, kw)
div(kw) == IF kw.tag # Absent THEN TypeError
           ELSE Component([kw EXCEPT !.tag = VStr(sDiv)])

---------------------------------------------------------------------------
(* rendering *)

\* self.model_dump(exclude=..., by_alias=...): declared fields in declaration
\* order, then the extras, as <<key, value>> pairs
model_dump(self, exclude, by_alias) ==
    LET declared ==
            << <<sTag, VStr(self.tag)>>,
               <<sChildren, VList>>,
               <<IF by_alias THEN sClass ELSE sClassName, self.class_name>> >>
            \o (IF self.cls \in {"Text", "Heading"}
                THEN << <<sContent, VStr(self.content)>> >> ELSE <<>>)
            \o (IF self.cls = "Heading"
                THEN << <<sLevel, self.level>> >> ELSE <<>>)
        all == declared \o self.extra
        fieldName(p) == IF p[1] = sClass THEN sClassName ELSE p[1]
        kept(p) == fieldName(p) \notin exclude
    IN  SelectSeq(all, kept)

\* Props without its "if v is not None" filter
Props_NoFilter(d) ==
    Join(<<" ">>,
         [i \in 1..Len(d) |->
             d[i][1] \o <<"=", "\"">> \o pyStr(d[i][2]) \o <<"\"">>])

\* " ".join([f'{k}="{v}"' for k, v in d.items() if v is not None])
Props(d) ==
    LET set(p) == p[2] # None
        live == SelectSeq(d, set)
    IN  Join(<<" ">>,
             [i \in 1..Len(live) |->
                 live[i][1] \o <<"=", "\"">> \o pyStr(live[i][2]) \o <<"\"">>])

OpenTag(tag, props) == <<"<">> \o tag \o <<" ">> \o props \o <<">">>
CloseTag(tag) == <<"<", "/">> \o tag \o <<">">>

RECURSIVE render(_)

\* Component.render
Component_render(self) ==
    LET props_dict == model_dump(self, {sChildren, sTag}, TRUE)
        props == Props(props_dict)
        children_html ==
            Concat([i \in 1..Len(self.children) |-> render(self.children[i])])
    IN  OpenTag(self.tag, props) \o children_html \o CloseTag(self.tag)

\* Text.render inheriting the children splice of Component.render
Text_render_WithChildren(self) ==
    LET props == Props(model_dump(self, {sChildren, sTag, sContent}, FALSE))
        children_html ==
            Concat([i \in 1..Len(self.children) |-> render(self.children[i])])
    IN  OpenTag(self.tag, props) \o self.content \o children_html
        \o CloseTag(self.tag)

\* Text.render
Text_render(self) ==
    LET props == Props(model_dump(self, {sChildren, sTag, sContent}, FALSE))
    IN  OpenTag(self.tag, props) \o self.content \o CloseTag(self.tag)

\* c.render(), dispatched on the node's class
render(self) == IF self.cls = "Component" THEN Component_render(self)
                ELSE Text_render(self)


---------------------------------------------------------------------------
(* The three specifications share the variables; each leaves the other two *)
(* parts in their initial state.                                           *)

WS       == 1..MaxConns   \* websocket connections the server may accept
NoCall   == [content |-> <<>>, fn |-> "none",
             kw |-> Kwargs(Absent, Absent, <<>>, Absent), level |-> Absent]
NoModule == [index |-> "none", loaded |-> FALSE]
NoResponse == [body |-> <<>>, detail |-> "none", status |-> 0]
NoBuild  == [dirsBefore |-> {}, exit |-> 0, file |-> "missing",
             filesBefore |-> {}, output |-> <<>>, printed |-> "none",
             ran |-> 0]

InitRender ==
    /\ call = NoCall
    /\ node = TypeError
    /\ html = <<>>
    /\ rendered = FALSE

InitDev ==
    /\ active_connections = {}
    /\ client = [w \in WS |-> "new"]
    /\ handler = [w \in WS |-> "idle"]
    /\ wpc = "awatch"
    /\ wlist = <<>>
    /\ wcur = 0
    /\ changeNo = 0
    /\ detected = 0
    /\ batchStart = 0
    /\ openAt = <<>>
    /\ reloads = [w \in WS |-> {}]
    /\ otherPending = FALSE

InitHarness ==
    /\ appFile = "missing"
    /\ sys_modules = NoModule
    /\ response = NoResponse
    /\ reqFile = "missing"
    /\ requests = 0
    /\ dirs = {<<>>}
    /\ files = {}
    /\ buildRun = NoBuild

Init == InitRender /\ InitDev /\ InitHarness

---------------------------------------------------------------------------
(* SpecRender: user code builds a node and renders it                      *)

sX  == <<"x">>
sY  == <<"y">>
sHi == <<"h", "i">>

NoKw == Kwargs(Absent, Absent, <<>>, Absent)

\* nodes user code may pass as children
ChildPool ==
    { Text(<<"a">>, Kwargs(Absent, VStr(sX), <<>>, Absent)),
      Component(Kwargs(VStr(sP), Absent, <<>>, VStr(sY))),
      Component(Kwargs(Absent, VStr(<<"c">>), <<Text(<<"a">>, NoKw)>>, Absent)) }

ChildLists == UNION {[1..n -> ChildPool] : n \in 0..MaxChildren}

TagArgs     == {Absent, VStr(sP)}
ClassArgs   == {Absent, VStr(sX)}
IdArgs      == {Absent, None, VStr(sY)}
ContentArgs == {sHi, <<>>}
LevelArgs   == {Absent} \cup {VInt(n) : n \in 1..MaxLevel}

KwargsSet == {Kwargs(t, c, ch, i) :
                 t \in TagArgs, c \in ClassArgs, ch \in ChildLists, i \in IdArgs}

\* the level a call passes, or the parameter's default (level: int = 1)
LevelOf(l) == IF l = Absent THEN 1 ELSE l.n

\* user code makes one constructor call, then renders what it got
Made(fn, content, level, kw, n) ==
    /\ call.fn = "none"
    /\ call' = [content |-> content, fn |-> fn, kw |-> kw, level |-> level]
    /\ node' = n
    /\ html' = <<>>
    /\ rendered' = FALSE
    /\ UNCHANGED <<devVars, harnessVars>>

NewComponent ==
    \E kw \in KwargsSet : Made("Component", <<>>, Absent, kw, Component(kw))

NewText ==
    \E c \in ContentArgs, kw \in KwargsSet : Made("Text", c, Absent, kw, Text(c, kw))

NewHeading ==
    \E c \in ContentArgs, l \in LevelArgs, kw \in KwargsSet :
        Made("Heading", c, l, kw, Heading(c, LevelOf(l), kw))

CallDiv ==
    \E kw \in KwargsSet : Made("div", <<>>, Absent, kw, div(kw))

CallText ==
    \E c \in ContentArgs, kw \in KwargsSet : Made("text", c, Absent, kw, text(c, kw))

CallHeading ==
    \E c \in ContentArgs, l \in LevelArgs, kw \in KwargsSet :
        Made("heading", c, l, kw, heading(c, LevelOf(l), kw))

Render ==
    /\ call.fn # "none"
    /\ node.cls # "TypeError"
    /\ ~rendered
    /\ html' = render(node)
    /\ rendered' = TRUE
    /\ UNCHANGED <<call, node, devVars, harnessVars>>

NextRender ==
    \/ NewComponent
    \/ NewText
    \/ NewHeading
    \/ CallDiv
    \/ CallText
    \/ CallHeading
    \/ Render

SpecRender == Init /\ [][NextRender]_vars

---------------------------------------------------------------------------
(* Claims about rendering (SpecRender)                                     *)

\* the text of h up to and including its first ">": the node's own opening tag
OwnOpenTag(h) ==
    LET first == CHOOSE i \in 1..Len(h) :
                     h[i] = ">" /\ \A j \in 1..(i - 1) : h[j] # ">"
    IN  SubSeq(h, 1, first)

StartsWith(h, pre) == Len(pre) <= Len(h) /\ SubSeq(h, 1, Len(pre)) = pre
EndsWith(h, suf) ==
    Len(suf) <= Len(h) /\ SubSeq(h, Len(h) - Len(suf) + 1, Len(h)) = suf

\* name="value"
Token(name, value) == name \o <<"=", "\"">> \o value \o <<"\"">>

\* no attribute of the node has a value
NoAttributeSet(n) ==
    n.class_name = None /\ \A i \in 1..Len(n.extra) : n.extra[i][2] = None

\* C1: a generic node with tag t, no attribute set and children c1..cn renders
\* as exactly "<t>", the children's renders in list order with no separator,
\* then "</t>"
C1_ExactGenericRender ==
    (rendered /\ node.cls = "Component" /\ NoAttributeSet(node))
        => html = <<"<">> \o node.tag \o <<">">>
                  \o Concat([i \in 1..Len(node.children) |->
                                render(node.children[i])])
                  \o CloseTag(node.tag)

\* C2: every node kind constructed with class_name="x" renders the token
\* class="x" and never the token class_name="x"
C2_ClassNameAliased ==
    (rendered /\ call.kw.class_name = VStr(sX))
        => /\ Contains(OwnOpenTag(html), Token(sClass, sX))
           /\ ~Contains(OwnOpenTag(html), Token(sClassName, sX))

\* C3: constructing a Heading with an explicitly passed tag succeeds and
\* yields a node whose tag is "h" followed by the level
C3_HeadingTagOverridden ==
    (call.fn \in {"Heading", "heading"} /\ call.kw.tag # Absent)
        => /\ node.cls = "Heading"
           /\ node.tag = sH \o IntToStr(LevelOf(call.level))

\* C4: apart from the derived tag a Heading renders exactly as the Text node
\* with the same content, tag "h"+level and the same extra attributes
C4_HeadingRendersAsText ==
    (rendered /\ node.cls = "Heading")
        => LET hn == sH \o IntToStr(LevelOf(call.level))
           IN  /\ html = render(Text(call.content,
                                     [call.kw EXCEPT !.tag = VStr(hn)]))
               /\ StartsWith(html, <<"<">> \o hn)
               /\ EndsWith(html, CloseTag(hn))

\* what C5 says of the text node's render apart from the children's renders
\* not occurring in it: it is the render of the same node without children,
\* and it is the opening tag, the content verbatim and the closing tag
TextRenderShape ==
    LET tail == node.content \o CloseTag(node.tag)
        open == SubSeq(html, 1, Len(html) - Len(tail))
    IN  /\ html = render([node EXCEPT !.children = <<>>])
        /\ EndsWith(html, tail)
        /\ StartsWith(open, <<"<">> \o node.tag \o <<" ">>)
        /\ open[Len(open)] = ">"
        /\ \A i \in 2..(Len(open) - 1) : open[i] \notin {"<", ">"}

\* C5 as stated: the render of a Text or Heading node never consults its
\* children, it is the opening tag, the content verbatim and the closing tag,
\* and no child's render output occurs in it
C5_Original ==
    (rendered /\ node.cls \in {"Text", "Heading"})
        => /\ TextRenderShape
           /\ \A i \in 1..Len(node.children) :
                  ~Contains(html, render(node.children[i]))

\* C5 as amended: the render of a Text or Heading node never consults its
\* children: it equals the render of the same node with no children, and is
\* exactly the opening tag, the content verbatim and the closing tag
C5_TextIgnoresChildren ==
    (rendered /\ node.cls \in {"Text", "Heading"}) => TextRenderShape

C5_Witness ==
    /\ rendered
    /\ node.cls = "Text"
    /\ Len(node.children) = MaxChildren
    /\ node.content = sHi

\* the attributes a node holds (class_name, a Heading's level, the extras),
\* each with the names it may be serialized under
Attributes(n) ==
    {<<{sClass, sClassName}, n.class_name>>, <<{sLevel}, n.level>>}
    \cup {<<{n.extra[i][1]}, n.extra[i][2]>> : i \in 1..Len(n.extra)}
    \cup (IF n.extra = <<>> THEN {<<{sId}, Absent>>} ELSE {})

\* C6: for every node kind an attribute without a value contributes no token
\* (neither name="" nor name="None"), every attribute with a value appears
\* exactly once as name="value", and the tokens are separated by single spaces
C6_UnsetAttributesOmitted ==
    rendered =>
        LET open == OwnOpenTag(html)
        IN  /\ \A a \in Attributes(node) :
                 IF a[2] \in {Absent, None}
                 THEN \A nm \in a[1] :
                        /\ ~Contains(open, Token(nm, <<>>))
                        /\ ~Contains(open, Token(nm, pyStr(None)))
                        /\ ~Contains(open, nm \o <<"=">>)
                 ELSE /\ \E nm \in a[1] :
                            /\ Count(open, <<" ">> \o Token(nm, pyStr(a[2]))) = 1
                            /\ Count(open, nm \o <<"=">>) = 1
                            /\ \/ Contains(open, Token(nm, pyStr(a[2])) \o <<" ">>)
                               \/ EndsWith(open, Token(nm, pyStr(a[2])) \o <<">">>)
                      /\ Cardinality({nm \in a[1] :
                                         Contains(open, nm \o <<"=">>)}) = 1
            /\ ~Contains(open, <<" ", " ">>)

C6_Witness ==
    /\ rendered
    /\ node.class_name = VStr(sX)
    /\ node.extra = << <<sId, None>> >>
    /\ node.cls = "Heading"

---------------------------------------------------------------------------
(* SpecDev: cli.py create_dev_server, the websocket handlers and the file  *)
(* watcher, as asyncio tasks that interleave at their awaits               *)

\* the orders in which list(active_connections) may enumerate the set
Orders(S) == {q \in [1..Cardinality(S) -> S] :
                 \A i, j \in 1..Len(q) : i # j => q[i] # q[j]}

\* a browser opens /ws: websocket_endpoint runs to its first receive_text
\* (accept, then active_connections.add with no await in between)
Connect(w) ==
    /\ client[w] = "new"
    /\ client' = [client EXCEPT ![w] = "open"]
    /\ handler' = [handler EXCEPT ![w] = "recv"]
    /\ active_connections' = active_connections \cup {w}
    /\ UNCHANGED <<wpc, wlist, wcur, changeNo, detected, batchStart, openAt,
                   reloads, otherPending, renderVars, harnessVars>>

\* the peer closes the socket (page closed or reloaded, network lost)
Disconnect(w) ==
    /\ client[w] = "open"
    /\ client' = [client EXCEPT ![w] = "closed"]
    /\ UNCHANGED <<active_connections, handler, wpc, wlist, wcur, changeNo,
                   detected, batchStart, openAt, reloads, otherPending,
                   renderVars, harnessVars>>

\* set.remove(x): KeyError when x is not in the set
Remove(S, x) == [raised |-> x \notin S, set |-> S \ {x}]

\* websocket_endpoint resumes from receive_text with the disconnect raised:
\* except: active_connections.remove(websocket)
HandlerExcept(w) ==
    /\ handler[w] = "recv"
    /\ client[w] = "closed"
    /\ LET r == Remove(active_connections, w)
       IN  /\ active_connections' = r.set
           /\ handler' = [handler EXCEPT
                            ![w] = IF r.raised THEN "KeyError" ELSE "done"]
    /\ UNCHANGED <<client, wpc, wlist, wcur, changeNo, detected, batchStart,
                   openAt, reloads, otherPending, renderVars, harnessVars>>

\* a .py file in the watched directory changes
FileChange ==
    /\ changeNo < MaxChanges
    /\ changeNo' = changeNo + 1
    /\ UNCHANGED <<active_connections, client, handler, wpc, wlist, wcur,
                   detected, batchStart, openAt, reloads, otherPending,
                   renderVars, harnessVars>>

\* another file in the watched directory changes
OtherChange ==
    /\ ~otherPending
    /\ otherPending' = TRUE
    /\ UNCHANGED <<active_connections, client, handler, wpc, wlist, wcur,
                   changeNo, detected, batchStart, openAt, reloads,
                   renderVars, harnessVars>>

\* the for loop of file_watcher from its head to its next await: the next
\* connection's send_text is started, or the list is exhausted and the task
\* is back in awatch
WatcherLoop(rest) ==
    IF rest = <<>>
    THEN /\ wpc' = "awatch"
         /\ wlist' = <<>>
         /\ wcur' = 0
    ELSE /\ wpc' = "send"
         /\ wlist' = Tail(rest)
         /\ wcur' = Head(rest)

\* awatch yields the pending changes; with a .py file among them the watcher
\* snapshots list(active_connections) and starts sending
WatcherDetect ==
    /\ wpc = "awatch"
    /\ changeNo > detected \/ otherPending
    /\ otherPending' = FALSE
    /\ detected' = changeNo
    /\ IF changeNo > detected
       THEN /\ batchStart' = detected + 1
            /\ openAt' = openAt \o [i \in 1..(changeNo - detected) |->
                                      {w \in WS : client[w] = "open"}]
            /\ \E q \in Orders(active_connections) : WatcherLoop(q)
       ELSE UNCHANGED <<batchStart, openAt, wpc, wlist, wcur>>
    /\ UNCHANGED <<active_connections, client, handler, changeNo, reloads,
                   renderVars, harnessVars>>

\* await ws.send_text("reload") completes: delivered to an open socket,
\* raised on a closed one; except: active_connections.remove(ws)
WatcherSendDone ==
    /\ wpc = "send"
    /\ IF client[wcur] = "open"
       THEN /\ reloads' = [reloads EXCEPT
                             ![wcur] = @ \cup (batchStart..detected)]
            /\ WatcherLoop(wlist)
            /\ UNCHANGED active_connections
       ELSE LET r == Remove(active_connections, wcur)
            IN  /\ active_connections' = r.set
                /\ UNCHANGED reloads
                /\ IF r.raised
                   THEN /\ wpc' = "KeyError"
                        /\ UNCHANGED <<wlist, wcur>>
                   ELSE WatcherLoop(wlist)
    /\ UNCHANGED <<client, handler, changeNo, detected, batchStart, openAt,
                   otherPending, renderVars, harnessVars>>

NextDev ==
    \/ \E w \in WS : Connect(w)
    \/ \E w \in WS : Disconnect(w)
    \/ \E w \in WS : HandlerExcept(w)
    \/ FileChange
    \/ OtherChange
    \/ WatcherDetect
    \/ WatcherSendDone

SpecDev == Init /\ [][NextDev]_vars

\* C7: every time a source-file change is detected, "reload" is sent to every
\* connection open at that moment, and this holds for every change during the
\* server's lifetime, also after a disconnect or a failed send: a change that
\* has happened is detected or the watcher is still there to detect it, and a
\* detected change has reached each connection that was open, unless its
\* broadcast is still under way or the connection has closed since
C7_ReloadReachesEveryOpenConnection ==
    /\ changeNo > detected => wpc # "KeyError"
    /\ \A c \in 1..Len(openAt) : \A w \in openAt[c] :
          \/ c \in reloads[w]
          \/ client[w] # "open"
          \/ /\ wpc = "send"
             /\ c >= batchStart
             /\ w = wcur \/ \E i \in 1..Len(wlist) : wlist[i] = w

\* C10: under every interleaving each connection is removed from
\* active_connections at most once: neither the handler nor the watcher is
\* ended by a failed removal, and a connection whose handler has ended is not
\* in the set
C10_RemovedAtMostOnce ==
    /\ wpc # "KeyError"
    /\ \A w \in WS : handler[w] # "KeyError"
    /\ \A w \in WS : handler[w] \in {"done", "KeyError"}
                        => w \notin active_connections

---------------------------------------------------------------------------
(* SpecHarness: cli.py get_user_module, create_dev_server.homepage, build  *)

sBody      == <<"b", "o", "d", "y">>
sBodyClose == <<"<", "/", "b", "o", "d", "y", ">">>

\* cli.py:21, kept as one chunk of text
SCRIPT_AUTORELOAD == <<"\n<script>(autoreload over /ws)</script>\n">>

\* what the user's app file may hold: nothing (no file), code that raises
\* when imported, code that defines no index, an index that raises, an index
\* whose result's render raises, or an index returning a page
FileKinds == {"missing", "raises", "no_index", "index_raises",
              "render_raises", "body_page", "plain_page"}

DefinesIndex(f) ==
    f \in {"index_raises", "render_raises", "body_page", "plain_page"}

\* the node index() returns
Page(idx) ==
    IF idx = "body_page"
    THEN Component(Kwargs(VStr(sBody), Absent, <<Text(sHi, NoKw)>>, Absent))
    ELSE Text(sHi, Kwargs(Absent, VStr(sX), <<>>, Absent))

\* user_module.index().render(): the exception raised, or the string
IndexRender(idx) ==
    CASE idx = "index_raises"  -> [raised |-> "index", text |-> <<>>]
      [] idx = "render_raises" -> [raised |-> "render", text |-> <<>>]
      [] OTHER                 -> [raised |-> "none", text |-> render(Page(idx))]

\* get_user_module(path) with sys.modules as m and the file as f: the exception
\* raised and sys.modules afterwards.  The module is registered before it is
\* executed; a registered module is reloaded with importlib.reload, which
\* executes the file in the module's existing namespace, so a name the file
\* no longer defines keeps its old binding
get_user_module(m, f) ==
    LET registered == [index |-> m.index, loaded |-> TRUE]
    IN  CASE f = "missing" ->
               [raised |-> IF m.loaded THEN "ModuleNotFoundError"
                           ELSE "FileNotFoundError",
                module |-> registered]
          [] f = "raises" -> [raised |-> "import", module |-> registered]
          [] OTHER ->
               [raised |-> "none",
                module |-> [index  |-> IF DefinesIndex(f) THEN f ELSE m.index,
                            loaded |-> TRUE]]

\* html.replace(old, new)
RECURSIVE Replace(_, _, _)
Replace(h, old, new) ==
    IF Len(h) < Len(old) THEN h
    ELSE IF SubSeq(h, 1, Len(old)) = old
         THEN new \o Replace(SubSeq(h, Len(old) + 1, Len(h)), old, new)
         ELSE <<h[1]>> \o Replace(Tail(h), old, new)

\* the 500 response of the except clause, with traceback.format_exc() in it
ErrorPage(exc) ==
    [body   |-> <<"<div style='color:red'><pre>", exc, "</pre></div>">>
                \o SCRIPT_AUTORELOAD,
     detail |-> exc,
     status |-> 500]

\* homepage(request): the response, given the module get_user_module returned
\* or the exception it raised
homepage(got) ==
    IF got.raised # "none" THEN ErrorPage(got.raised)
    ELSE IF got.module.index = "none"
    THEN [body   |-> <<"Error: No index() function">>,
          detail |-> "no_index",
          status |-> 500]
    ELSE LET r == IndexRender(got.module.index)
         IN  IF r.raised # "none" THEN ErrorPage(r.raised)
             ELSE [body   |-> IF Contains(r.text, sBodyClose)
                              THEN Replace(r.text, sBodyClose,
                                           SCRIPT_AUTORELOAD \o sBodyClose)
                              ELSE r.text \o SCRIPT_AUTORELOAD,
                   detail |-> "none",
                   status |-> 200]

\* the user saves, replaces or deletes the app file
EditFile ==
    /\ \E f \in FileKinds \ {appFile} : appFile' = f
    /\ UNCHANGED <<sys_modules, response, reqFile, requests, dirs, files,
                   buildRun, renderVars, devVars>>

\* GET / on the dev server
Request ==
    /\ requests < MaxRequests
    /\ LET got == get_user_module(sys_modules, appFile)
       IN  /\ sys_modules' = got.module
           /\ response' = homepage(got)
    /\ reqFile' = appFile
    /\ requests' = requests + 1
    /\ UNCHANGED <<appFile, dirs, files, buildRun, renderVars, devVars>>

\* paths are sequences of names below the working directory
Parent(path) == SubSeq(path, 1, Len(path) - 1)
IsFile(path) == \E f \in files : f.path = path

\* Path.mkdir(exist_ok=True), parents not created: the exception raised and
\* the directories afterwards
Mkdir(path) ==
    IF path \in dirs THEN [raised |-> "none", dirs |-> dirs]
    ELSE IF IsFile(path) THEN [raised |-> "FileExistsError", dirs |-> dirs]
    ELSE IF Parent(path) \notin dirs
         THEN [raised |-> "FileNotFoundError", dirs |-> dirs]
    ELSE [raised |-> "none", dirs |-> dirs \cup {path}]

\* open(path, "w").write(text): the file is created or truncated
WriteFile(path, content) ==
    {f \in files : f.path # path} \cup {[content |-> content, path |-> path]}

Outputs == {<<"dist">>, <<"out">>, <<"out", "site">>}

BuildEnds(output, code, msg) ==
    buildRun' = [dirsBefore |-> dirs, exit |-> code, file |-> appFile,
                 filesBefore |-> files, output |-> output, printed |-> msg,
                 ran |-> buildRun.ran + 1]

\* ihjs build FILE --output OUTPUT, a process of its own (its sys.modules
\* holds no user module yet)
Build(output) ==
    /\ buildRun.ran < MaxBuilds
    /\ LET got == get_user_module(NoModule, appFile)
           r   == IndexRender(got.module.index)
           made == Mkdir(output)
       IN  IF appFile = "missing"
           THEN /\ BuildEnds(output, 1, "Error: File not found")
                /\ UNCHANGED <<dirs, files>>
           ELSE IF got.raised # "none"
           THEN /\ BuildEnds(output, 1, "Error loading module")
                /\ UNCHANGED <<dirs, files>>
           ELSE IF got.module.index = "none"
           THEN /\ BuildEnds(output, 1, "Error: Missing index() function")
                /\ UNCHANGED <<dirs, files>>
           ELSE IF r.raised # "none"
           THEN /\ BuildEnds(output, 1, "Error during rendering")
                /\ UNCHANGED <<dirs, files>>
           ELSE IF made.raised # "none"
           THEN /\ BuildEnds(output, 1, made.raised)
                /\ UNCHANGED <<dirs, files>>
           ELSE /\ BuildEnds(output, 0, "Success! Generated")
                /\ dirs' = made.dirs
                /\ files' = WriteFile(output \o <<"index.html">>, r.text)
    /\ UNCHANGED <<appFile, sys_modules, response, reqFile, requests,
                   renderVars, devVars>>

NextHarness ==
    \/ EditFile
    \/ Request
    \/ \E o \in Outputs : Build(o)

SpecHarness == Init /\ [][NextHarness]_vars

\* the failures of the harness: no app file, an exception while the module
\* loads, no index entry point, an exception from index() or render()
Failure(f) ==
    f \in {"missing", "raises", "no_index", "index_raises", "render_raises"}

\* C8: a build of an app file that exists, loads, defines index and renders
\* creates the output directory if absent (the default or any --output path)
\* and leaves output/index.html holding exactly the string index().render()
\* returned, with nothing added and any earlier content replaced
C8_BuildWritesIndexHtml ==
    (buildRun.ran > 0 /\ ~Failure(buildRun.file))
        => /\ buildRun.exit = 0
           /\ buildRun.output \in dirs
           /\ {f.content : f \in {g \in files :
                   g.path = buildRun.output \o <<"index.html">>}}
              = {render(Page(buildRun.file))}

\* C9: every harness-level failure is caught and surfaced: in dev mode the
\* request to "/" gets a 500 response whose body carries the details, and
\* later requests are still answered; in build mode a message is printed and
\* the exit status is non-zero, no directory created and no file written
C9_FailuresSurfaced ==
    /\ (requests > 0 /\ Failure(reqFile))
          => /\ response.status = 500
             /\ response.detail # "none"
             /\ response.body # <<>>
    /\ (buildRun.ran > 0 /\ Failure(buildRun.file))
          => /\ buildRun.exit # 0
             /\ buildRun.printed # "none"
             /\ dirs = buildRun.dirsBefore
             /\ files = buildRun.filesBefore

============================================================================
